---- MODULE Spec2Model ----
(***************************************************************************)
(* A model of automatic_parking_permit.py: one process invocation (a run)  *)
(* drives the rpm2park.com wizard in a Firefox session, reads the permit's *)
(* expiration, optionally saves a screenshot, optionally sends it through  *)
(* a discord client, and optionally registers a Windows Task Scheduler     *)
(* task that runs the program again.  Successive invocations share the     *)
(* disk and the task scheduler.                                            *)
(***************************************************************************)
EXTENDS Integers, Sequences, FiniteSets, TLC

\* ------------------------------------------------------------------ bounds
\* number of successive invocations of the program that are explored
MaxRuns == 2
\* calendar days (0..MaxDay) the portal's expiration text and the clock range over
MaxDay == 1

VARIABLES
    run,            \* ordinal of the current invocation
    pc,             \* position of the invocation in main()
    args,           \* argparse.Namespace: [config, verbose]
    configState,    \* what validate/load find at args.config
    config,         \* the dict load_config returned: the three feature flags, and
                    \* the key it lacks ("none" when every key is present)
    driver,         \* Firefox session: "none", "open", "window_closed", "quit"
    closeCalls,     \* close()/quit() commands issued on the session, in order
    step,           \* index of the next wizard element in create_parking_permit
    wizardLog,      \* element ids acted upon by create_parking_permit, in order
    failure,        \* exception that ends the run, "none" when there is none
    failedAt,       \* element id or call the exception came from
    expiration,     \* parking_permit_expiration_date (NoDate until parsed)
    disk,           \* screenshot files that exist, by path
    captures,       \* save_full_page_screenshot calls that wrote a file, this run
    deletes,        \* os.remove calls, this run
    deleteErrors,   \* "Could not find and delete" errors logged, this run
    client,         \* discord.Client: "none", "connected", "http_closed", "closed"
    channel,        \* result of client.get_channel: "unresolved", "found", "None"
    notifLog,       \* steps of send_screenshot_in_discord's client, in order
    tasks,          \* Windows Task Scheduler: set of registered tasks
    tasksAtStart,   \* tasks as they were when the invocation started
    registrations,  \* schtasks /create calls, this run
    now,            \* last value datetime.now() returned to the scheduler check
    exitCode        \* process exit status, -1 while running

vars == <<run, pc, args, configState, config, driver, closeCalls, step, wizardLog,
          failure, failedAt, expiration, disk, captures, deletes, deleteErrors, client,
          channel,
          notifLog, tasks, tasksAtStart, registrations, now, exitCode>>

\* groups of variables left alone together
browserVars == <<driver, closeCalls>>
wizardVars  == <<step, wizardLog>>
fileVars    == <<disk, captures, deletes, deleteErrors>>
clientVars  == <<client, channel, notifLog>>
taskVars    == <<tasks, registrations, now>>
inputVars   == <<run, args, configState, tasksAtStart>>

\* ------------------------------------------------------------- data domains
\* 12-hour clock hours, minutes and seconds the portal's text is drawn from
Hours12 == {12, 6}
Minutes == {52}
Seconds == {0, 5}

\* the text of MainContent_lbl_Results_Expires: '%m/%d/%Y %I:%M:%S %p' fields,
\* or text that does not match the format (wellFormed = FALSE)
ExpirationTexts ==
    [wellFormed : {TRUE}, day : 0..MaxDay, h12 : Hours12, mi : Minutes,
     s : Seconds, pm : BOOLEAN]
    \cup {[wellFormed |-> FALSE, day |-> 0, h12 |-> 12, mi |-> 52, s |-> 0, pm |-> FALSE]}

NoDate == [day |-> -1, hour |-> 0, minute |-> 0, second |-> 0]

\* values datetime.now() may return when the scheduler check reads it
NowSet == {[day |-> d, hour |-> 18, minute |-> 52, second |-> 0] : d \in 0..MaxDay}

ArgsSet == {[config |-> "config.yaml", verbose |-> FALSE],
            [config |-> "other.yaml", verbose |-> TRUE],
            [config |-> "my config.yaml", verbose |-> FALSE]}

ConfigStates == {"ok", "missing", "not_yaml", "invalid_yaml", "warning_unread"}

\* config files that hold every key the program reads
Configs == [save_screenshot_of_permit : BOOLEAN,
            send_screenshot_in_discord : BOOLEAN,
            automatically_renew_permit : BOOLEAN,
            missing : {"none"}]

\* keys a config file may lack, each read by a different part of the program
MissingKeys == {"timeout", "vehicle_make", "discord_bot_token", "discord_channel_id"}

\* config files that lack one key
IncompleteConfigs == [save_screenshot_of_permit : BOOLEAN,
                      send_screenshot_in_discord : BOOLEAN,
                      automatically_renew_permit : BOOLEAN,
                      missing : MissingKeys]

NoConfig == [save_screenshot_of_permit |-> FALSE,
             send_screenshot_in_discord |-> FALSE,
             automatically_renew_permit |-> FALSE,
             missing |-> "none"]

\* ---------------------------------------------------------- pure functions
\* seconds since day 0, 00:00:00: the order datetime's comparison uses
ToSeconds(dt) == ((dt.day * 24 + dt.hour) * 60 + dt.minute) * 60 + dt.second

\* datetime.strptime(date_str, '%m/%d/%Y %I:%M:%S %p'): %I with %p gives the 24-hour hour
Strptime(text) ==
    [day |-> text.day,
     hour |-> (text.h12 % 12) + (IF text.pm THEN 12 ELSE 0),
     minute |-> text.mi,
     second |-> text.s]

\* strftime('%m/%d/%Y')
FormatDate(dt) == dt.day

\* strftime('%H:%M')
FormatTime(dt) == [hour |-> dt.hour, minute |-> dt.minute]

\* the words a path is made of where it is written into a string without quotes
Words(path) == IF path = "my config.yaml" THEN <<"my", "config.yaml">> ELSE <<path>>

\* generate_command_line_arguments_as_str: the flags that are not at their default,
\* as the words of the string, which are separated by single spaces
GenerateCommandLineArgumentsAsStr(a) ==
    (IF a.config # "config.yaml" THEN <<"--config">> \o Words(a.config) ELSE <<>>)
    \o (IF a.verbose THEN <<"--verbose">> ELSE <<>>)

\* parse_arguments on the words of a command line: --config takes the next
\* word, --verbose takes none, any other word is an error (ok = FALSE)
RECURSIVE ParseFrom(_, _)
ParseFrom(words, parsed) ==
    IF words = <<>> THEN parsed
    ELSE IF Head(words) = "--config" /\ Len(words) >= 2
         THEN ParseFrom(Tail(Tail(words)), [parsed EXCEPT !.config = words[2]])
    ELSE IF Head(words) = "--verbose"
         THEN ParseFrom(Tail(words), [parsed EXCEPT !.verbose = TRUE])
    ELSE [parsed EXCEPT !.ok = FALSE]

ParseArguments(words) ==
    ParseFrom(words, [ok |-> TRUE, config |-> "config.yaml", verbose |-> FALSE])

\* rpm2park_parking_permit_<time>.png: one name per invocation
GenerateScreenshotFilePath(r) == <<"rpm2park_parking_permit", r>>

ScreenshotPath == GenerateScreenshotFilePath(run)

\* variant: make and model are filled in the other order
WizardStepsSwapped ==
    << "MainContent_ddl_Property",
       "MainContent_txt_Apartment", "MainContent_btn_PropertyNext",
       "MainContent_txt_Plate", "MainContent_txt_Model", "MainContent_txt_Make",
       "MainContent_txt_Color", "MainContent_btn_Vehicle_Next", "MainContent_btn_Auth_Next",
       "MainContent_txt_Review_PlateNumber", "MainContent_cb_Confirm",
       "MainContent_btn_Submit" >>

\* the element ids create_parking_permit waits for and acts on, in source order
WizardSteps ==
    << "MainContent_ddl_Property",
       "MainContent_txt_Apartment", "MainContent_btn_PropertyNext",
       "MainContent_txt_Plate", "MainContent_txt_Make", "MainContent_txt_Model",
       "MainContent_txt_Color", "MainContent_btn_Vehicle_Next", "MainContent_btn_Auth_Next",
       "MainContent_txt_Review_PlateNumber", "MainContent_cb_Confirm",
       "MainContent_btn_Submit" >>

\* the config key each wizard statement reads for its action, after its wait
\* has returned ("" when the action is a click)
StepKeys ==
    << "property_location",
       "apartment_number_str", "",
       "plate_number", "vehicle_make", "vehicle_model",
       "vehicle_color", "", "",
       "plate_number", "", "" >>

\* ------------------------------------------------------------------- Init
InitRun ==
    /\ pc = "validate_config_file"
    /\ config = NoConfig
    /\ driver = "none"
    /\ closeCalls = <<>>
    /\ step = 1
    /\ wizardLog = <<>>
    /\ failure = "none"
    /\ failedAt = "none"
    /\ expiration = NoDate
    /\ captures = 0
    /\ deletes = 0
    /\ deleteErrors = 0
    /\ client = "none"
    /\ channel = "unresolved"
    /\ notifLog = <<>>
    /\ registrations = 0
    /\ exitCode = -1

Init ==
    /\ run = 1
    /\ args \in ArgsSet
    /\ configState \in ConfigStates
    /\ disk = {}
    /\ tasks = {}
    /\ tasksAtStart = {}
    /\ now = [day |-> 0, hour |-> 0, minute |-> 0, second |-> 0]
    /\ InitRun

\* --------------------------------------------------------- exit and raise
\* sys.exit(1) outside the with block
SysExit(at) ==
    /\ pc' = "done"
    /\ exitCode' = 1
    /\ failure' = "SystemExit"
    /\ failedAt' = at

\* variant: the exception leaves main without the with statement's __exit__
RaiseWithoutExit(exc, at) ==
    /\ pc' = "done"
    /\ failure' = exc
    /\ failedAt' = at
    /\ exitCode' = 1

\* an exception raised inside `with webdriver.Firefox() as driver`: it unwinds
\* to the with statement, whose __exit__ runs before the exception leaves main
Raise(exc, at) ==
    /\ pc' = "with_exit"
    /\ failure' = exc
    /\ failedAt' = at
    /\ UNCHANGED exitCode

NoRaise == UNCHANGED <<failure, failedAt, exitCode>>

\* ---------------------------------------------------------- configuration
ValidateConfigFile ==
    /\ pc = "validate_config_file"
    /\ IF configState \in {"missing", "not_yaml"}
       THEN SysExit("validate_config_file")
       ELSE pc' = "load_config" /\ NoRaise
    /\ UNCHANGED <<inputVars, config, browserVars, wizardVars, expiration, fileVars,
                   clientVars, taskVars>>

\* load_config on a file whose content is one of `files`: no key is looked up here
LoadConfigFrom(files) ==
    /\ pc = "load_config"
    /\ IF configState = "invalid_yaml"
       THEN SysExit("load_config") /\ UNCHANGED config
       ELSE /\ config' \in files
            /\ pc' = "validate_config_warning"
            /\ NoRaise
    /\ UNCHANGED <<inputVars, browserVars, wizardVars, expiration, fileVars,
                   clientVars, taskVars>>

LoadConfig == LoadConfigFrom(Configs)

\* load_config on a file that lacks a key
LoadIncompleteConfig == LoadConfigFrom(IncompleteConfigs)

ValidateConfigWarning ==
    /\ pc = "validate_config_warning"
    /\ IF configState = "warning_unread"
       THEN SysExit("validate_config_warning")
       ELSE pc' = "open_browser" /\ NoRaise
    /\ UNCHANGED <<inputVars, config, browserVars, wizardVars, expiration, fileVars,
                   clientVars, taskVars>>

\* ----------------------------------------------------------------- browser
\* with webdriver.Firefox() as driver
OpenBrowser ==
    /\ pc = "open_browser"
    /\ driver' = "open"
    /\ pc' = "driver_get"
    /\ NoRaise
    /\ UNCHANGED <<inputVars, config, closeCalls, wizardVars, expiration, fileVars,
                   clientVars, taskVars>>

\* driver.get('https://rpm2park.com/visitors/')
DriverGet ==
    /\ pc = "driver_get"
    /\ \E ok \in BOOLEAN :
          IF ok THEN pc' = "create_parking_permit" /\ NoRaise
          ELSE Raise("WebDriverException", "driver.get")
    /\ UNCHANGED <<inputVars, config, browserVars, wizardVars, expiration, fileVars,
                   clientVars, taskVars>>

\* the step that follows wizard step i
NextStep(i) == i + 1

\* one wait_for_element(...).<action> of create_parking_permit
\* config['timeout'] is read before the wait, the action's key after it
CreateParkingPermit ==
    /\ pc = "create_parking_permit"
    /\ IF config.missing = "timeout"
       THEN Raise("KeyError", "timeout") /\ UNCHANGED wizardVars
       ELSE \E visible \in BOOLEAN :
          IF visible
          THEN IF config.missing = StepKeys[step]
               THEN Raise("KeyError", config.missing) /\ UNCHANGED wizardVars
               ELSE /\ wizardLog' = Append(wizardLog, WizardSteps[step])
                    /\ step' = NextStep(step)
                    /\ pc' = IF NextStep(step) > Len(WizardSteps)
                             THEN "get_expiration" ELSE "create_parking_permit"
                    /\ NoRaise
          ELSE /\ Raise("TimeoutException", WizardSteps[step])
               /\ UNCHANGED wizardVars
    /\ UNCHANGED <<inputVars, config, browserVars, expiration, fileVars,
                   clientVars, taskVars>>

\* variant: a text that does not parse is recorded and the run carries on
GetExpirationIgnoringParseError ==
    /\ pc = "get_expiration"
    /\ \/ /\ Raise("TimeoutException", "MainContent_lbl_Results_Expires")
          /\ UNCHANGED expiration
       \/ \E text \in ExpirationTexts :
             /\ expiration' = IF text.wellFormed THEN Strptime(text) ELSE NoDate
             /\ pc' = "main_save"
             /\ failure' = IF text.wellFormed THEN failure ELSE "ValueError"
             /\ failedAt' = IF text.wellFormed THEN failedAt ELSE "strptime"
             /\ UNCHANGED exitCode
    /\ UNCHANGED <<inputVars, config, browserVars, wizardVars, fileVars,
                   clientVars, taskVars>>

\* get_parking_permit_expiration_date, then generate_screenshot_file_path
GetParkingPermitExpirationDate ==
    /\ pc = "get_expiration"
    /\ \/ /\ Raise("TimeoutException", "MainContent_lbl_Results_Expires")
          /\ UNCHANGED expiration
       \/ \E text \in ExpirationTexts :
             IF text.wellFormed
             THEN /\ expiration' = Strptime(text)
                  /\ pc' = "main_save"
                  /\ NoRaise
             ELSE /\ Raise("ValueError", "strptime")
                  /\ UNCHANGED expiration
    /\ UNCHANGED <<inputVars, config, browserVars, wizardVars, fileVars,
                   clientVars, taskVars>>

\* -------------------------------------------------------------- screenshot
\* save_screenshot_of_permit: wait for the QR code, then save_full_page_screenshot;
\* both need the session's window, and either may raise
SaveScreenshotOfPermit(next) ==
    IF driver # "open"
    THEN /\ Raise("WebDriverException", "MainContent_img_QRC")
         /\ UNCHANGED fileVars
    ELSE \E outcome \in {"saved", "timeout", "error"} :
            IF outcome = "saved"
            THEN /\ disk' = disk \cup {ScreenshotPath}
                 /\ captures' = captures + 1
                 /\ pc' = next
                 /\ NoRaise
                 /\ UNCHANGED <<deletes, deleteErrors>>
            ELSE /\ IF outcome = "timeout"
                    THEN Raise("TimeoutException", "MainContent_img_QRC")
                    ELSE Raise("WebDriverException", "save_full_page_screenshot")
                 /\ UNCHANGED fileVars

\* variant: a missing file is passed over in silence
DeleteScreenshotOfPermitSilently ==
    IF ScreenshotPath \in disk
    THEN /\ disk' = disk \ {ScreenshotPath}
         /\ deletes' = deletes + 1
         /\ UNCHANGED deleteErrors
    ELSE UNCHANGED <<disk, deletes, deleteErrors>>

\* delete_screenshot_of_permit: remove the file, or log an error when it is missing
DeleteScreenshotOfPermit ==
    IF ScreenshotPath \in disk
    THEN /\ disk' = disk \ {ScreenshotPath}
         /\ deletes' = deletes + 1
         /\ UNCHANGED deleteErrors
    ELSE /\ deleteErrors' = deleteErrors + 1
         /\ UNCHANGED <<disk, deletes>>

\* variant: the screenshot is saved whatever the flag says
MainSaveScreenshotAlways ==
    /\ pc = "main_save"
    /\ SaveScreenshotOfPermit("main_send")
    /\ UNCHANGED <<inputVars, config, browserVars, wizardVars, expiration,
                   clientVars, taskVars>>

\* `if config['save_screenshot_of_permit']:` in main
MainSaveScreenshot ==
    /\ pc = "main_save"
    /\ IF config.save_screenshot_of_permit
       THEN SaveScreenshotOfPermit("main_send")
       ELSE pc' = "main_send" /\ NoRaise /\ UNCHANGED fileVars
    /\ UNCHANGED <<inputVars, config, browserVars, wizardVars, expiration,
                   clientVars, taskVars>>

\* ------------------------------------------------------------ notification

\* variant: the two branches are taken the other way round
SendNeedsTemporaryScreenshotInverted(cfg) == cfg.save_screenshot_of_permit

\* variant: the temporary screenshot is never taken
SendNeverTakesScreenshot(cfg) == FALSE

\* `if not config['save_screenshot_of_permit']:` at the top of send_screenshot_in_discord
SendNeedsTemporaryScreenshot(cfg) == ~cfg.save_screenshot_of_permit

\* variant: the screenshot is deleted after every send
DeleteAfterEverySend(cfg) == TRUE

\* `if not config['save_screenshot_of_permit']:` after the client has exited
DeleteAfterSend(cfg) == ~cfg.save_screenshot_of_permit

\* `if config['send_screenshot_in_discord']:` and the first statement of
\* send_screenshot_in_discord: a temporary screenshot, or driver.close()
SendScreenshotEntry ==
    /\ pc = "main_send"
    /\ IF ~config.send_screenshot_in_discord
       THEN pc' = "with_exit" /\ NoRaise /\ UNCHANGED <<browserVars, fileVars>>
       ELSE IF SendNeedsTemporaryScreenshot(config)
            THEN SaveScreenshotOfPermit("client_start") /\ UNCHANGED browserVars
            ELSE /\ driver' = "window_closed"
                 /\ closeCalls' = Append(closeCalls, "close")
                 /\ pc' = "client_start"
                 /\ NoRaise
                 /\ UNCHANGED fileVars
    /\ UNCHANGED <<inputVars, config, wizardVars, expiration, clientVars, taskVars>>

\* variant: the call returns once logged in, without waiting for the client to
\* be closed by on_ready
ClientStartNotWaiting ==
    /\ pc = "client_start"
    /\ client' = "connected"
    /\ notifLog' = notifLog \o <<"start", "ready">>
    /\ pc' = "client_exit"
    /\ NoRaise
    /\ UNCHANGED <<inputVars, config, browserVars, wizardVars, expiration, fileVars,
                   channel, taskVars>>

\* `async with discord.Client(...)` and `await client.start(token)` up to the
\* ready event; a failed login leaves the async with (closing the client) and
\* propagates, skipping the rest of send_screenshot_in_discord
ClientStart ==
    /\ pc = "client_start"
    /\ IF config.missing = "discord_bot_token"
       THEN /\ client' = "closed"
            /\ notifLog' = notifLog \o <<"raise">>
            /\ Raise("KeyError", "discord_bot_token")
       ELSE \E loggedIn \in BOOLEAN :
          IF loggedIn
          THEN /\ client' = "connected"
               /\ notifLog' = notifLog \o <<"start", "ready">>
               /\ pc' = "on_ready_get_channel"
               /\ NoRaise
          ELSE /\ client' = "closed"
               /\ notifLog' = notifLog \o <<"start", "raise">>
               /\ Raise("LoginFailure", "client.start")
    /\ UNCHANGED <<inputVars, config, browserVars, wizardVars, expiration, fileVars,
                   channel, taskVars>>

\* an exception inside on_ready is caught and logged by the client's event
\* dispatch: it is not propagated, the client stays connected, and
\* client.start() keeps waiting
HandlerError(event) ==
    /\ notifLog' = Append(notifLog, event)
    /\ pc' = "client_running"

\* channel = client.get_channel(config['discord_channel_id']): the channel or None
OnReadyGetChannel ==
    /\ pc = "on_ready_get_channel"
    /\ IF config.missing = "discord_channel_id"
       THEN HandlerError("get_channel_error") /\ UNCHANGED channel
       ELSE /\ \E found \in BOOLEAN : channel' = IF found THEN "found" ELSE "None"
            /\ notifLog' = Append(notifLog, "get_channel")
            /\ pc' = "on_ready_send"
    /\ NoRaise
    /\ UNCHANGED <<inputVars, config, browserVars, wizardVars, expiration, fileVars,
                   client, taskVars>>

\* await channel.send(file=discord.File(screenshot_file_path))
OnReadySend ==
    /\ pc = "on_ready_send"
    /\ IF channel = "None" \/ ScreenshotPath \notin disk
       THEN HandlerError("send_error")
       ELSE \E sent \in BOOLEAN :
               IF sent
               THEN notifLog' = Append(notifLog, "send") /\ pc' = "on_ready_http_close"
               ELSE HandlerError("send_error")
    /\ NoRaise
    /\ UNCHANGED <<inputVars, config, browserVars, wizardVars, expiration, fileVars,
                   client, channel, taskVars>>

\* await client.http.close()
OnReadyHttpClose ==
    /\ pc = "on_ready_http_close"
    /\ \E closed \in BOOLEAN :
          IF closed
          THEN /\ client' = "http_closed"
               /\ notifLog' = Append(notifLog, "http_close")
               /\ pc' = "on_ready_client_close"
          ELSE HandlerError("http_close_error") /\ UNCHANGED client
    /\ NoRaise
    /\ UNCHANGED <<inputVars, config, browserVars, wizardVars, expiration, fileVars,
                   channel, taskVars>>

\* await client.close(): once the client is closed client.start() returns; a
\* close that fails part-way may or may not have ended the connection
OnReadyClientClose ==
    /\ pc = "on_ready_client_close"
    /\ \E outcome \in {"closed", "error_running", "error_ended"} :
          CASE outcome = "closed" ->
                  /\ client' = "closed"
                  /\ notifLog' = Append(notifLog, "close")
                  /\ pc' = "client_exit"
            [] outcome = "error_running" ->
                  HandlerError("close_error") /\ UNCHANGED client
            [] outcome = "error_ended" ->
                  /\ notifLog' = Append(notifLog, "close_error")
                  /\ pc' = "client_exit"
                  /\ UNCHANGED client
    /\ NoRaise
    /\ UNCHANGED <<inputVars, config, browserVars, wizardVars, expiration, fileVars,
                   channel, taskVars>>

\* client.start() has returned: the async with exits (closing the client), the
\* temporary screenshot is deleted, and send_screenshot_in_discord returns to main
ClientExit ==
    /\ pc = "client_exit"
    /\ client' = "closed"
    /\ notifLog' = Append(notifLog, "return")
    /\ IF DeleteAfterSend(config)
       THEN DeleteScreenshotOfPermit /\ UNCHANGED captures
       ELSE UNCHANGED fileVars
    /\ pc' = "with_exit"
    /\ NoRaise
    /\ UNCHANGED <<inputVars, config, browserVars, wizardVars, expiration,
                   channel, taskVars>>

\* ------------------------------------------------------- leaving the with

\* variant: leaving the block does not quit the driver
ExitBrowserContextWithoutQuit ==
    /\ pc = "with_exit"
    /\ IF failure = "none"
       THEN pc' = "renew" /\ UNCHANGED exitCode
       ELSE pc' = "done" /\ exitCode' = 1
    /\ UNCHANGED <<inputVars, config, browserVars, wizardVars, failure, failedAt,
                   expiration, fileVars, clientVars, taskVars>>

\* variant: __exit__ suppresses the exception and main carries on
ExitBrowserContextSuppressing ==
    /\ pc = "with_exit"
    /\ driver' = "quit"
    /\ closeCalls' = Append(closeCalls, "quit")
    /\ pc' = "renew"
    /\ UNCHANGED <<inputVars, config, wizardVars, failure, failedAt, expiration,
                   fileVars, clientVars, taskVars, exitCode>>

\* webdriver's __exit__ calls driver.quit(); an exception in flight then leaves
\* main and the interpreter exits with status 1
ExitBrowserContext ==
    /\ pc = "with_exit"
    /\ driver' = "quit"
    /\ closeCalls' = Append(closeCalls, "quit")
    /\ IF failure = "none"
       THEN pc' = "renew" /\ UNCHANGED exitCode
       ELSE pc' = "done" /\ exitCode' = 1
    /\ UNCHANGED <<inputVars, config, wizardVars, failure, failedAt, expiration,
                   fileVars, clientVars, taskVars>>

\* --------------------------------------------------------------- scheduling
TaskName == "AutomaticParkingPermitRenewal"

\* variant: >= in place of >
IsInFutureOrNow(exp, current) == ToSeconds(exp) >= ToSeconds(current)

\* `if parking_permit_expiration_date > datetime.now():`
IsInFuture(exp, current) == ToSeconds(exp) > ToSeconds(current)

\* variant: the command of the task carries no flags
RenewalTaskWithoutArgs(exp, a) ==
    [tn |-> TaskName,
     tr |-> <<>>,
     sc |-> "once",
     sd |-> FormatDate(exp),
     st |-> FormatTime(exp),
     rl |-> "HIGHEST"]

\* the task the schtasks arguments describe: /tn, /tr, /sc, /sd, /st, /rl
RenewalTask(exp, a) ==
    [tn |-> TaskName,
     tr |-> GenerateCommandLineArgumentsAsStr(a),
     sc |-> "once",
     sd |-> FormatDate(exp),
     st |-> FormatTime(exp),
     rl |-> "HIGHEST"]

\* variant: without /f semantics, the new task is added beside the old one
SchtasksCreateKeeping(ts, t) == ts \cup {t}

\* schtasks /create ... /f: a task of the same name is overwritten
SchtasksCreate(ts, t) == {x \in ts : x.tn # t.tn} \cup {t}

\* `if config['automatically_renew_permit']:` and schedule_program_to_renew_permit
SchedulePermitRenewal ==
    /\ pc = "renew"
    /\ IF ~config.automatically_renew_permit
       THEN /\ pc' = "done"
            /\ exitCode' = 0
            /\ UNCHANGED <<failure, failedAt, taskVars>>
       ELSE \E current \in NowSet :
               /\ ToSeconds(current) >= ToSeconds(now)
               /\ now' = current
               /\ IF IsInFuture(expiration, current)
                  THEN /\ tasks' = SchtasksCreate(tasks, RenewalTask(expiration, args))
                       /\ registrations' = registrations + 1
                       /\ pc' = "done"
                       /\ exitCode' = 0
                       /\ UNCHANGED <<failure, failedAt>>
                  ELSE /\ SysExit("schedule_program_to_renew_permit")
                       /\ UNCHANGED <<tasks, registrations>>
    /\ UNCHANGED <<inputVars, config, browserVars, wizardVars, expiration,
                   fileVars, clientVars>>

\* ------------------------------------------------------------ next invocation
\* the process has exited; the program is invoked again (by the scheduled task
\* or by hand) with the same command line, on the same disk and scheduler
NewRun ==
    /\ pc = "done"
    /\ run < MaxRuns
    /\ run' = run + 1
    /\ configState' \in ConfigStates
    /\ tasksAtStart' = tasks
    /\ pc' = "validate_config_file"
    /\ config' = NoConfig
    /\ driver' = "none"
    /\ closeCalls' = <<>>
    /\ step' = 1
    /\ wizardLog' = <<>>
    /\ failure' = "none"
    /\ failedAt' = "none"
    /\ expiration' = NoDate
    /\ captures' = 0
    /\ deletes' = 0
    /\ deleteErrors' = 0
    /\ client' = "none"
    /\ channel' = "unresolved"
    /\ notifLog' = <<>>
    /\ registrations' = 0
    /\ exitCode' = -1
    /\ UNCHANGED <<args, disk, tasks, now>>

Next ==
    \/ ValidateConfigFile
    \/ LoadConfig
    \/ ValidateConfigWarning
    \/ OpenBrowser
    \/ DriverGet
    \/ CreateParkingPermit
    \/ GetParkingPermitExpirationDate
    \/ MainSaveScreenshot
    \/ SendScreenshotEntry
    \/ ClientStart
    \/ OnReadyGetChannel
    \/ OnReadySend
    \/ OnReadyHttpClose
    \/ OnReadyClientClose
    \/ ClientExit
    \/ ExitBrowserContext
    \/ SchedulePermitRenewal
    \/ NewRun

Spec == Init /\ [][Next]_vars

\* the same program given config files that may lack a key
NextIncomplete == Next \/ LoadIncompleteConfig

SpecIncomplete == Init /\ [][NextIncomplete]_vars

\* the screenshot is removed by something other than the program (the disk is
\* shared with the user and other programs) while the program runs
ExternalRemove ==
    /\ pc \notin {"done", "client_running"}
    /\ ScreenshotPath \in disk
    /\ disk' = disk \ {ScreenshotPath}
    /\ UNCHANGED <<inputVars, pc, config, browserVars, wizardVars, failure, failedAt,
                   exitCode, expiration, captures, deletes, deleteErrors, clientVars,
                   taskVars>>

NextEnv == Next \/ ExternalRemove

SpecEnv == Init /\ [][NextEnv]_vars

TypeOK ==
    /\ run \in 1..MaxRuns
    /\ args \in ArgsSet
    /\ config \in Configs \cup IncompleteConfigs
    /\ driver \in {"none", "open", "window_closed", "quit"}
    /\ step \in 1..(Len(WizardSteps) + 1)
    /\ exitCode \in {-1, 0, 1}
    /\ client \in {"none", "connected", "http_closed", "closed"}
    /\ channel \in {"unresolved", "found", "None"}

\* ------------------------------------------------------------------ claims
\* the process has exited
Exited == pc = "done"

\* send_screenshot_in_discord was entered and control is back in main, by
\* return or by a propagated exception
DispatchCompleted ==
    /\ config.send_screenshot_in_discord
    /\ notifLog # <<>>
    /\ pc \in {"with_exit", "renew", "done"}

\* C1: in every run that opened a browser session, the session has been
\* released (quit) by the time the process has exited, whatever ended the run.
C1_SessionReleasedAtExit ==
    (Exited /\ driver # "none") => driver = "quit"

\* C1 witness: a run ended by a notification failure, with the session released
C1_Witness ==
    Exited /\ failure = "LoginFailure" /\ driver = "quit"

\* C2: exactly one close operation is issued on the browser session per run,
\* for every combination of the screenshot and discord flags.
C2_ClosedExactlyOnce ==
    (Exited /\ driver # "none") => Len(closeCalls) = 1

\* C3: with save_screenshot_of_permit false and send_screenshot_in_discord
\* true, once the dispatch step has completed (by success or by failure) the
\* artifact that was created no longer exists on disk.
C3_EphemeralArtifactGoneAfterDispatch ==
    ( /\ ~config.save_screenshot_of_permit
      /\ DispatchCompleted
      /\ captures > 0 )
    => ScreenshotPath \notin disk

\* C4: whenever the send of the artifact is performed, the artifact file
\* exists on disk at that moment.
C4_ArtifactExistsAtSend ==
    pc = "on_ready_send" => ScreenshotPath \in disk

\* C4 witness: the send is about to run on a resolved channel after
\* driver.close(), with the retained screenshot on disk
C4_Witness ==
    /\ pc = "on_ready_send"
    /\ channel = "found"
    /\ driver = "window_closed"
    /\ ScreenshotPath \in disk

\* a run that got past the capture in main and has exited
RunCompleted ==
    /\ Exited
    /\ \/ exitCode = 0
       \/ failedAt \in {"client.start", "schedule_program_to_renew_permit"}

\* C5: with save_screenshot_of_permit true no delete is ever performed on the
\* artifact, and after a run that completes the artifact exists on disk,
\* whether or not notification is enabled and whatever its outcome.
C5_RetainedArtifactNeverDeleted ==
    config.save_screenshot_of_permit =>
        /\ deletes = 0
        /\ RunCompleted => ScreenshotPath \in disk

\* C5 witness: a retained screenshot survives a run whose send completed
C5_Witness ==
    /\ config.save_screenshot_of_permit
    /\ config.send_screenshot_in_discord
    /\ Exited
    /\ exitCode = 0
    /\ "send" \in {notifLog[i] : i \in 1..Len(notifLog)}
    /\ ScreenshotPath \in disk

\* the wizard's steps in the fixed order: select property; apartment, next;
\* plate, make, model, color, vehicle-next, auth-next; review plate, confirm, submit
FixedOrder ==
    << "MainContent_ddl_Property",
       "MainContent_txt_Apartment", "MainContent_btn_PropertyNext",
       "MainContent_txt_Plate", "MainContent_txt_Make", "MainContent_txt_Model",
       "MainContent_txt_Color", "MainContent_btn_Vehicle_Next", "MainContent_btn_Auth_Next",
       "MainContent_txt_Review_PlateNumber", "MainContent_cb_Confirm",
       "MainContent_btn_Submit" >>

Submits == Cardinality({i \in 1..Len(wizardLog) : wizardLog[i] = "MainContent_btn_Submit"})

\* a wait of create_parking_permit timed out
WizardTimedOut ==
    /\ failure = "TimeoutException"
    /\ failedAt \in {FixedOrder[i] : i \in 1..Len(FixedOrder)}

\* create_parking_permit was entered and control has left it
WizardLeft ==
    /\ driver # "none"
    /\ failedAt # "driver.get"
    /\ pc \notin {"open_browser", "driver_get", "create_parking_permit"}

\* C6: the steps performed are always an initial part of the fixed order, each
\* at most once; a wizard in which no wait timed out performed all of them and
\* submitted exactly once; after a timeout the step that timed out and the
\* later ones are never performed, and submit is issued at most once.
C6_WizardFixedOrderSubmitOnce ==
    /\ Len(wizardLog) <= Len(FixedOrder)
    /\ \A i \in 1..Len(wizardLog) : wizardLog[i] = FixedOrder[i]
    /\ Submits <= 1
    /\ (WizardLeft /\ ~WizardTimedOut) => (wizardLog = FixedOrder /\ Submits = 1)
    /\ WizardTimedOut =>
          \E k \in 1..Len(FixedOrder) :
             /\ failedAt = FixedOrder[k]
             /\ wizardLog = SubSeq(FixedOrder, 1, k - 1)

\* C6 witness: a run that performed the whole wizard and has exited
C6_Witness ==
    Exited /\ wizardLog = FixedOrder /\ Submits = 1 /\ exitCode = 0

Page2 ==
    {"MainContent_txt_Plate", "MainContent_txt_Make", "MainContent_txt_Model",
     "MainContent_txt_Color", "MainContent_btn_Vehicle_Next", "MainContent_btn_Auth_Next"}

\* C7: after an element wait times out on page 2 no artifact is created, no
\* notification session is opened and no task is registered, and once the
\* process has exited the browser session is closed and the status is non-zero.
C7_Page2TimeoutAborts ==
    (failure = "TimeoutException" /\ failedAt \in Page2) =>
        /\ captures = 0
        /\ ScreenshotPath \notin disk
        /\ client = "none"
        /\ notifLog = <<>>
        /\ registrations = 0
        /\ tasks = tasksAtStart
        /\ pc \in {"with_exit", "done"}
        /\ Exited => (driver = "quit" /\ exitCode = 1)

\* C7 witness: a run that timed out waiting for the model field and has exited
C7_Witness ==
    /\ Exited
    /\ failure = "TimeoutException"
    /\ failedAt = "MainContent_txt_Model"
    /\ driver = "quit"
    /\ exitCode = 1

\* C8: a call of the renewal scheduler with an expiration that is not strictly
\* after the current time registers nothing, leaves the scheduler's tasks as
\* they are, and ends the process with status 1.
C8_ExpiredPermitRegistersNothing ==
    [][ ( /\ pc = "renew"
          /\ config.automatically_renew_permit
          /\ ToSeconds(expiration) <= ToSeconds(now') )
        => ( /\ tasks' = tasks
             /\ registrations' = registrations
             /\ pc' = "done"
             /\ exitCode' = 1 ) ]_vars

\* C8 witness: the scheduler met an expiration equal to the current time while
\* a task from an earlier run was registered, and the run has exited
C8_Witness ==
    /\ Exited
    /\ failedAt = "schedule_program_to_renew_permit"
    /\ ToSeconds(expiration) = ToSeconds(now)
    /\ tasks # {}
    /\ tasks = tasksAtStart

Named == {t \in tasks : t.tn = TaskName}

\* C9: the scheduler never holds more than one task named
\* AutomaticParkingPermitRenewal, and after a successful run with auto-renewal
\* enabled it holds exactly one, whose trigger date and time are those
\* registered by that run.
C9_RegistrationIdempotent ==
    /\ Cardinality(Named) <= 1
    /\ (Exited /\ exitCode = 0 /\ config.automatically_renew_permit) =>
          /\ Cardinality(Named) = 1
          /\ \A t \in Named :
                /\ t.sd = expiration.day
                /\ t.st = [hour |-> expiration.hour, minute |-> expiration.minute]

\* C9 witness: a second successful run registered a different time and the
\* scheduler holds one task, not the earlier one
C9_Witness ==
    /\ Exited
    /\ exitCode = 0
    /\ registrations = 1
    /\ tasksAtStart # {}
    /\ tasks # tasksAtStart
    /\ Cardinality(tasks) = 1

\* the instant a task's /sd and /st fire at, in seconds
TriggerSeconds(t) == ((t.sd * 24 + t.st.hour) * 60 + t.st.minute) * 60

\* C10: for every future expiration the registered task's trigger date and
\* time are the expiration instant, neither earlier nor later.
C10_TriggerMatchesExpiration ==
    (Exited /\ registrations = 1) =>
        \A t \in Named : TriggerSeconds(t) = ToSeconds(expiration)

\* the config file keeps the program from running: it is missing or invalid,
\* its warning is unacknowledged, or it lacks a key an enabled feature reads
ConfigurationError ==
    \/ configState # "ok"
    \/ config.missing \in {"timeout", "vehicle_make"}
    \/ /\ config.missing \in {"discord_bot_token", "discord_channel_id"}
       /\ config.send_screenshot_in_discord

\* C11: with a configuration error no browser session is opened, no wizard
\* step, capture, notification or registration is performed, and the process
\* exits non-zero.
C11_ConfigErrorFailsFast ==
    ConfigurationError =>
        /\ driver = "none"
        /\ wizardLog = <<>>
        /\ captures = 0
        /\ client = "none"
        /\ notifLog = <<>>
        /\ registrations = 0
        /\ Exited => exitCode = 1

Has(e) == \E i \in 1..Len(notifLog) : notifLog[i] = e

Count(e) == Cardinality({i \in 1..Len(notifLog) : notifLog[i] = e})

\* every a in the log comes before every b
Before(a, b) ==
    \A i, j \in 1..Len(notifLog) : (notifLog[i] = a /\ notifLog[j] = b) => i < j

\* b happens only after a has happened
Follows(b, a) == Has(b) => (Has(a) /\ Before(a, b))

\* C12: the dispatcher's steps occur in order: session start, ready, channel
\* resolution, send, teardown (http close, then client close), return; the send
\* happens at most once, and exactly once in a dispatch that returns, by which
\* time teardown is over and the client is closed.
C12_DispatcherOrder ==
    /\ Count("send") <= 1
    /\ Follows("ready", "start")
    /\ Follows("get_channel", "ready")
    /\ Follows("send", "get_channel")
    /\ Has("send") => channel = "found"
    /\ Follows("http_close", "send")
    /\ Follows("close", "http_close")
    /\ Follows("close_error", "http_close")
    /\ Has("return") =>
          /\ Count("send") = 1
          /\ Has("http_close")
          /\ Has("close") \/ Has("close_error")
          /\ notifLog[Len(notifLog)] = "return"
          /\ Count("return") = 1
          /\ client = "closed"
          /\ pc \in {"with_exit", "renew", "done"}
    /\ pc \in {"on_ready_get_channel", "on_ready_send", "on_ready_http_close",
               "on_ready_client_close", "client_exit"} => ~Has("return")

\* C12 witness: a dispatch that sent, tore down and returned, in a run that exited
C12_Witness ==
    /\ Exited
    /\ notifLog = <<"start", "ready", "get_channel", "send", "http_close", "close", "return">>

AllFeaturesEnabled ==
    /\ config.save_screenshot_of_permit
    /\ config.send_screenshot_in_discord
    /\ config.automatically_renew_permit

\* a run whose wizard, capture and notification completed and whose expiration
\* was in the future when the scheduler read the clock
HappyRun ==
    /\ Exited
    /\ Submits = 1
    /\ Has("return")
    /\ expiration # NoDate
    /\ ToSeconds(expiration) > ToSeconds(now)

\* the flags of the invocation that are not at their default
ExpectedFlags ==
    (IF args.config = "config.yaml" THEN <<>> ELSE <<"--config">> \o Words(args.config))
    \o (IF args.verbose THEN <<"--verbose">> ELSE <<>>)

Range(seq) == {seq[i] : i \in 1..Len(seq)}

\* C14: the flag string of the registered task holds --config exactly when the
\* config path is not config.yaml and --verbose exactly when verbose was set,
\* is empty when both are at their defaults, and parses back to the
\* invocation's (config, verbose) pair.
C14_FlagsRoundTrip ==
    (Exited /\ registrations = 1) =>
        \A t \in Named :
            /\ ("--config" \in Range(t.tr)) <=> (args.config # "config.yaml")
            /\ ("--verbose" \in Range(t.tr)) <=> args.verbose
            /\ (args.config = "config.yaml" /\ ~args.verbose) => t.tr = <<>>
            /\ ParseArguments(t.tr) =
                  [ok |-> TRUE, config |-> args.config, verbose |-> args.verbose]

\* C15: after the expiration text failed to parse, the submit has been issued
\* once, no artifact is captured, no notification session is opened and no
\* task is registered; the run goes straight to its exit, where the browser
\* session is released and the status is non-zero.
C15_ParseFailureFatal ==
    failure = "ValueError" =>
        /\ Submits = 1
        /\ captures = 0
        /\ ScreenshotPath \notin disk
        /\ client = "none"
        /\ notifLog = <<>>
        /\ registrations = 0
        /\ tasks = tasksAtStart
        /\ pc \in {"with_exit", "done"}
        /\ Exited => (driver = "quit" /\ exitCode = 1)

\* C15 witness: a run that exited on a parse failure
C15_Witness ==
    Exited /\ failure = "ValueError" /\ Submits = 1 /\ driver = "quit" /\ exitCode = 1

\* C16: when the temporary screenshot is missing at deletion time, after the
\* notification has completed, one error is logged, the disk is left as it is
\* and no exception is raised; the run carries on: the browser session is
\* released and, with automatically_renew_permit, the scheduler is called.
C16_MissingArtifactNonFatal ==
    /\ []( deleteErrors > 0 =>
             /\ deleteErrors = 1
             /\ ~config.save_screenshot_of_permit
             /\ Has("return")
             /\ deletes = 0
             /\ ScreenshotPath \notin disk
             /\ pc \in {"with_exit", "renew", "done"}
             /\ failedAt \in {"none", "schedule_program_to_renew_permit"}
             /\ Exited =>
                   /\ driver = "quit"
                   /\ IF config.automatically_renew_permit
                      THEN \/ registrations = 1 /\ exitCode = 0
                           \/ failedAt = "schedule_program_to_renew_permit"
                      ELSE registrations = 0 /\ exitCode = 0 )
    /\ [][ ( /\ pc = "client_exit"
             /\ ~config.save_screenshot_of_permit
             /\ ScreenshotPath \notin disk )
           => ( /\ deleteErrors' = deleteErrors + 1
                /\ disk' = disk
                /\ failure' = "none"
                /\ pc' = "with_exit" ) ]_vars

\* C16 witness: a run that found the screenshot missing, carried on and
\* registered the task
C16_Witness ==
    Exited /\ deleteErrors = 1 /\ registrations = 1 /\ driver = "quit" /\ exitCode = 0

\* C17: a capture happens only in a step that starts and ends with the browser
\* session open and that raises nothing (the QR wait has returned); no capture
\* has been made when the QR wait times out; and driver.close() is called only
\* once the artifact has been captured and is on disk.
C17_CaptureWhileSessionOpen ==
    /\ [][ captures' > captures =>
              (driver = "open" /\ driver' = "open" /\ failure' = "none") ]_vars
    /\ [][ (driver = "open" /\ driver' = "window_closed") =>
              (captures = 1 /\ ScreenshotPath \in disk) ]_vars
    /\ [](failedAt = "MainContent_img_QRC" => captures = 0)

\* C17 witness: the window was closed after the retained screenshot was captured
C17_Witness ==
    /\ driver = "window_closed"
    /\ config.save_screenshot_of_permit
    /\ captures = 1
    /\ ScreenshotPath \in disk

\* C18: a task is registered only once the browser session has been quit, and
\* only in a run whose submit, expiration parse and every enabled capture and
\* notification step completed with no exception.
C18_RegistrationAfterSessionClosed ==
    (registrations > 0 \/ tasks # tasksAtStart) =>
        /\ driver = "quit"
        /\ "quit" \in Range(closeCalls)
        /\ Submits = 1
        /\ expiration # NoDate
        /\ failure = "none"
        /\ config.save_screenshot_of_permit => (captures = 1 /\ ScreenshotPath \in disk)
        /\ config.send_screenshot_in_discord => (Has("send") /\ Has("return"))

\* C18 witness: a task registered after a run that saved and sent the screenshot
C18_Witness ==
    /\ registrations = 1
    /\ driver = "quit"
    /\ config.save_screenshot_of_permit
    /\ Has("return")

\* C19: every run terminates: a run that has not exited can always take a
\* further step; in particular it is never left waiting after the channel
\* resolution or the send failed.
C19_RunTerminates ==
    Exited \/ ENABLED Next

\* C20: with both screenshot flags false nothing is captured or deleted; with
\* send_screenshot_in_discord false no notification session is opened; with
\* automatically_renew_permit false no task is registered and the clock is
\* never read for the expiration check.
C20_DisabledFeaturesDoNothing ==
    /\ []( (~config.save_screenshot_of_permit /\ ~config.send_screenshot_in_discord) =>
              (captures = 0 /\ deletes = 0 /\ deleteErrors = 0 /\ ScreenshotPath \notin disk) )
    /\ []( ~config.send_screenshot_in_discord =>
              (client = "none" /\ notifLog = <<>> /\ "close" \notin Range(closeCalls)) )
    /\ []( ~config.automatically_renew_permit =>
              (registrations = 0 /\ tasks = tasksAtStart) )
    /\ [][ ~config.automatically_renew_permit => (now' = now /\ tasks' = tasks) ]_vars

\* C20 witness: a run with every feature disabled that submitted and exited 0
C20_Witness ==
    /\ Exited
    /\ exitCode = 0
    /\ Submits = 1
    /\ ~config.save_screenshot_of_permit
    /\ ~config.send_screenshot_in_discord
    /\ ~config.automatically_renew_permit
    /\ captures = 0
    /\ client = "none"
    /\ registrations = 0

====
